---- MODULE Spec2Model ----
(***************************************************************************)
(* BasicBot (src/basic_bot.py): a REST client for a futures testnet.       *)
(*                                                                         *)
(* The model follows one client instance used by one synchronous caller.   *)
(* A public operation (place_order, get_order, cancel_order, or a direct   *)
(* _signed_request as the two front-ends make) runs until it blocks on an  *)
(* HTTP call; the exchange's answer (or a transport failure) is the        *)
(* environment's choice and resumes it.                                    *)
(*                                                                         *)
(* Representation                                                          *)
(*  - a Python value is a tagged record (None, Num, Str, Sig);             *)
(*  - a dict is a sequence of <key, value> entries in insertion order;     *)
(*  - quantities are whole numbers of 0.0005, prices whole numbers of      *)
(*    0.005, so that the default filter 0.001/0.001/0.01/0.01 is 2/2/2/2   *)
(*    and a value can fall half way between two steps. Arithmetic is       *)
(*    exact: binary floating-point representation error is not modelled;   *)
(*  - HMAC-SHA256 is an ideal keyed hash: the signature of a query string  *)
(*    is the record of the key and the string signed.                      *)
(***************************************************************************)
EXTENDS Integers, Sequences, FiniteSets, TLC

VARIABLES
    pc,             \* the caller's thread: "idle", "meta_wait", "request_wait", "done"
    op,             \* the public operation in progress or last finished, with its arguments
    heap,           \* the payload dicts alive during _signed_request: caller's and local
    callerBefore,   \* the caller's payload as it was when _signed_request was entered
    calls,          \* the HTTP calls the operation has issued, in order
    resps,          \* the answers to those calls, in order
    filt,           \* the instrument filter in force in place_order
    result,         \* how the operation ended
    now             \* the clock, in milliseconds since the epoch

vars == <<pc, op, heap, callerBefore, calls, resps, filt, result, now>>

-----------------------------------------------------------------------------
(* Bounds of the model *)

MaxQty == 3
MaxPrice == 3
MaxTime == 2
MaxMin == 4
MaxStep == 3

-----------------------------------------------------------------------------
(* Python values *)

None == [t |-> "none", n |-> 0, s |-> ""]
Num(n) == [t |-> "num", n |-> n, s |-> ""]
Str(s) == [t |-> "str", n |-> 0, s |-> s]

\* bool(v): None, 0 and "" are falsy
Truthy(v) ==
    CASE v.t = "none" -> FALSE
      [] v.t = "num" -> v.n # 0
      [] v.t = "str" -> v.s # ""
      [] OTHER -> TRUE

\* str.upper() on the strings the model uses
Upper(s) ==
    CASE s = "buy" -> "BUY"
      [] s = "sell" -> "SELL"
      [] s = "limit" -> "LIMIT"
      [] s = "get" -> "GET"
      [] s = "btcusdt" -> "BTCUSDT"
      [] OTHER -> s

\* str(b).lower() for a bool b
BoolStrLower(b) == IF b THEN "true" ELSE "false"

\* how an f-string renders a value
Format(v) ==
    CASE v.t = "none" -> "None"
      [] v.t = "str" -> v.s
      [] OTHER -> "?"

-----------------------------------------------------------------------------
(* dicts, in insertion order *)

Entry(k, v) == [k |-> k, v |-> v]
Keys(d) == {d[i].k : i \in 1..Len(d)}
Has(d, k) == \E i \in 1..Len(d) : d[i].k = k
Idx(d, k) == CHOOSE i \in 1..Len(d) : d[i].k = k
Get(d, k) == d[Idx(d, k)].v
\* d.get(k)
GetOrNone(d, k) == IF Has(d, k) THEN Get(d, k) ELSE None
\* d[k] = v
Put(d, k, v) == IF Has(d, k) THEN [d EXCEPT ![Idx(d, k)].v = v] ELSE Append(d, Entry(k, v))
\* d.setdefault(k, v)
SetDefault(d, k, v) == IF Has(d, k) THEN d ELSE Append(d, Entry(k, v))
\* d.update(e) for a dict e
RECURSIVE Update(_, _)
Update(d, e) == IF e = <<>> THEN d ELSE Update(Put(d, Head(e).k, Head(e).v), Tail(e))
\* {k: v for k, v in d.items() if v is not None}
DropNone(d) == SelectSeq(d, LAMBDA e : e.v.t # "none")
Without(d, k) == SelectSeq(d, LAMBDA e : e.k # k)
Count(d, k) == Cardinality({i \in 1..Len(d) : d[i].k = k})

-----------------------------------------------------------------------------
(* The client: BasicBot.__init__ *)

recv_window == 5000
api_secret == "secret"

-----------------------------------------------------------------------------
(* Signer: BasicBot._sign *)

\* str(v) as urlencode renders a value
QueryText(v) ==
    CASE v.t = "none" -> "None"
      [] v.t = "num" -> ToString(v.n)
      [] v.t = "str" -> v.s
      [] OTHER -> "<signature>"

\* urlencode(data, doseq=True): the key=value pairs in the dict's order
UrlEncode(data) == [i \in 1..Len(data) |-> <<data[i].k, QueryText(data[i].v)>>]

\* hmac.new(api_secret, query, sha256).hexdigest(), HMAC being an ideal hash
Sign(data) == [t |-> "sig", n |-> 0, s |-> "", key |-> api_secret, query |-> UrlEncode(data)]

-----------------------------------------------------------------------------
(* HTTP answers *)

DictBody(raw, fields) == [json |-> TRUE, raw |-> raw, fields |-> fields]
TextBody(raw) == [json |-> FALSE, raw |-> raw, fields |-> <<>>]

Transport == [kind |-> "transport", status |-> 0, body |-> TextBody("")]
Http(status, body) == [kind |-> "http", status |-> status, body |-> body]

\* requests.Response.ok
Ok(r) == r.status < 400

OrderAck == DictBody("{\"orderId\":7}", <<Entry("orderId", Num(7))>>)
ErrMsgBody == DictBody("{\"msg\":\"Invalid quantity.\"}", <<Entry("msg", Str("Invalid quantity."))>>)
ErrNoMsgBody == DictBody("{\"code\":-1121}", <<Entry("code", Num(0 - 1121))>>)

\* One entry of exchangeInfo's symbols: the LOT_SIZE and PRICE_FILTER records
LotSize(minQty, stepSize) ==
    Entry("LOT_SIZE", <<Entry("minQty", minQty), Entry("stepSize", stepSize)>>)
PriceFilter(minPrice, tickSize) ==
    Entry("PRICE_FILTER", <<Entry("minPrice", minPrice), Entry("tickSize", tickSize)>>)
SymbolEntry(symbol, filters) == [symbol |-> symbol, filters |-> filters]

\* minimum a multiple of the step
EntryA == SymbolEntry("BTCUSDT", <<LotSize(Num(4), Num(2)), PriceFilter(Num(3), Num(3))>>)
\* minimum not a multiple of the step
EntryB == SymbolEntry("BTCUSDT", <<LotSize(Num(3), Num(2)), PriceFilter(Num(1), Num(2))>>)
\* a zero step
EntryZ == SymbolEntry("BTCUSDT", <<LotSize(Num(1), Num(0)), PriceFilter(Num(1), Num(1))>>)
\* no PRICE_FILTER record
EntryNoPrice == SymbolEntry("BTCUSDT", <<LotSize(Num(4), Num(2))>>)
\* a stepSize that is no number
EntryNaN == SymbolEntry("BTCUSDT", <<LotSize(Num(4), Str("n/a")), PriceFilter(Num(3), Num(3))>>)
EntryEth == SymbolEntry("ETHUSDT", <<LotSize(Num(2), Num(1)), PriceFilter(Num(2), Num(1))>>)

SymbolLists ==
    { <<>>, <<EntryA>>, <<EntryEth, EntryB, EntryA>>, <<EntryZ>>, <<EntryNoPrice>>, <<EntryNaN>> }

InfoBody(symbols) ==
    DictBody("{\"symbols\":[...]}",
             <<Entry("symbols", [t |-> "list", n |-> 0, s |-> "", items |-> symbols])>>)

\* what the order, balance and similar endpoints answer
OrderResponses ==
    { Transport,
      Http(200, OrderAck),
      Http(200, TextBody("<html>")),
      Http(400, ErrMsgBody),
      Http(400, ErrNoMsgBody),
      Http(500, TextBody("Bad Gateway")) }

\* what the exchangeInfo endpoint answers
Responses == OrderResponses \cup { Http(200, InfoBody(l)) : l \in SymbolLists }

-----------------------------------------------------------------------------
(* How a call ends *)

NoContent == [isdict |-> FALSE, fields |-> <<>>, text |-> ""]
NoResult == [kind |-> "none", exc |-> "none", status |-> 0, msg |-> "", content |-> NoContent]
Return(content) ==
    [kind |-> "return", exc |-> "none", status |-> 0, msg |-> "", content |-> content]
Raise(exc, status, msg) ==
    [kind |-> "raise", exc |-> exc, status |-> status, msg |-> msg, content |-> NoContent]

-----------------------------------------------------------------------------
(* SignedClient: BasicBot._signed_request *)

NoPayload == [present |-> FALSE, d |-> <<>>]
Payload(d) == [present |-> TRUE, d |-> d]

\* bool(payload): None and {} are falsy
PayloadTruthy(p) == p.present /\ Len(p.d) > 0

PayloadAlias(h, p) ==
    [heap |-> [h EXCEPT !.local = <<>>], ref |-> IF PayloadTruthy(p) THEN "caller" ELSE "local"]

\* payload = payload.copy() if payload else {}: the local name is bound to a new dict
PayloadCopy(h, p) ==
    [heap |-> [h EXCEPT !.local = IF PayloadTruthy(p) THEN h.caller ELSE <<>>], ref |-> "local"]

\* signature = self._sign(payload); payload["signature"] = signature
SignPayload(d) == Put(d, "signature", Sign(d))

\* _signed_request up to the HTTP call: the payload sent, the heap it leaves, and
\* the ValueError of an unsupported method (raised with no call made)
SignedRequestEnter(p, method, path, ts) ==
    LET c == PayloadCopy([caller |-> p.d, local |-> <<>>], p)
        d1 == SetDefault(c.heap[c.ref], "recvWindow", Num(recv_window))
        d2 == Put(d1, "timestamp", Num(ts))
        d3 == SignPayload(d2)
        m == Upper(method)
    IN [heap |-> [c.heap EXCEPT ![c.ref] = d3],
        exc |-> IF m \in {"GET", "POST", "DELETE"} THEN "none" ELSE "ValueError",
        call |-> [method |-> m, path |-> path, params |-> d3]]

\* content = r.json(), or r.text when the body is no JSON
Content(r) ==
    IF r.body.json THEN [isdict |-> TRUE, fields |-> r.body.fields, text |-> ""]
    ELSE [isdict |-> FALSE, fields |-> <<>>, text |-> r.body.raw]

\* err_msg = content.get("msg") if isinstance(content, dict) else str(content)
ErrMsg(r) ==
    LET content == Content(r)
    IN IF content.isdict THEN Format(GetOrNone(content.fields, "msg")) ELSE content.text

SignedRequestExitSwallow(r) ==
    IF r.kind = "transport" THEN Return(NoContent)
    ELSE IF ~Ok(r) THEN Raise("RuntimeError", r.status, ErrMsg(r))
    ELSE Return(Content(r))

\* _signed_request from the HTTP call's outcome on
SignedRequestExit(r) ==
    IF r.kind = "transport" THEN Raise("RequestException", 0, "")
    ELSE IF ~Ok(r) THEN Raise("RuntimeError", r.status, ErrMsg(r))
    ELSE Return(Content(r))

-----------------------------------------------------------------------------
(* InstrumentRules: the exchangeInfo lookup of BasicBot.place_order *)

Filter(min_qty, step_size, min_price, tick_size) ==
    [min_qty |-> min_qty, step_size |-> step_size, min_price |-> min_price, tick_size |-> tick_size]

\* 0.001, 0.001, 0.01, 0.01 in units of 0.0005 (quantity) and 0.005 (price)
DefaultMinQty == 2
DefaultStepSize == 2
DefaultMinPrice == 2
DefaultTickSize == 2
DefaultFilter == Filter(DefaultMinQty, DefaultStepSize, DefaultMinPrice, DefaultTickSize)

\* float(x) of a field of the metadata
IsFloat(v) == v.t = "num"

\* The body of the try block after the GET: the exception it ends with ("none"
\* when it ends normally) and the filter it assigns
ResolveFilter(r, symbol) ==
    LET fail(exc) == [exc |-> exc, f |-> DefaultFilter]
    IN IF r.kind = "raise" THEN fail(r.exc)
       ELSE IF ~r.content.isdict THEN fail("TypeError")
       ELSE IF ~Has(r.content.fields, "symbols") THEN fail("KeyError")
       ELSE LET symbols == Get(r.content.fields, "symbols").items
                hits == {i \in 1..Len(symbols) : symbols[i].symbol = symbol}
            IN IF hits = {} THEN fail("ValueError")
               ELSE LET i == CHOOSE j \in hits : \A k \in hits : j <= k
                        filters == symbols[i].filters
                    IN IF ~Has(filters, "LOT_SIZE") \/ ~Has(filters, "PRICE_FILTER")
                       THEN fail("KeyError")
                       ELSE LET lot == Get(filters, "LOT_SIZE")
                                pf == Get(filters, "PRICE_FILTER")
                            IN IF ~(Has(lot, "minQty") /\ Has(lot, "stepSize")
                                    /\ Has(pf, "minPrice") /\ Has(pf, "tickSize"))
                               THEN fail("KeyError")
                               ELSE IF ~(IsFloat(Get(lot, "minQty")) /\ IsFloat(Get(lot, "stepSize"))
                                         /\ IsFloat(Get(pf, "minPrice")) /\ IsFloat(Get(pf, "tickSize")))
                               THEN fail("ValueError")
                               ELSE [exc |-> "none",
                                     f |-> Filter(Get(lot, "minQty").n, Get(lot, "stepSize").n,
                                                  Get(pf, "minPrice").n, Get(pf, "tickSize").n)]

CaughtButTransport(exc) == exc # "RequestException"

\* except Exception: every exception the try block can end with is caught
Caught(exc) == TRUE

-----------------------------------------------------------------------------
(* Quantizer: round_step and the clamp of BasicBot.place_order *)

MinOf(a, b) == IF a >= b THEN b ELSE a

\* max(a, b)
Max(a, b) == IF a >= b THEN a ELSE b

\* round(a / b) for b > 0: to the nearest integer, a tie to the even one
RoundHalfEven(a, b) ==
    LET q == a \div b
        r == a % b
    IN IF 2 * r < b THEN q
       ELSE IF 2 * r > b THEN q + 1
       ELSE IF q % 2 = 0 THEN q ELSE q + 1

\* round(value / step) * step
round_step(value, step) == RoundHalfEven(value, step) * step

QuantizeNoClamp(v, minimum, step) ==
    IF ~Truthy(v) THEN [exc |-> "none", v |-> v]
    ELSE IF step = 0 THEN [exc |-> "ZeroDivisionError", v |-> v]
    ELSE [exc |-> "none", v |-> Num(round_step(v.n, step))]

\* if value: value = max(minimum, round_step(value, step))
Quantize(v, minimum, step) ==
    IF ~Truthy(v) THEN [exc |-> "none", v |-> v]
    ELSE IF step = 0 THEN [exc |-> "ZeroDivisionError", v |-> v]
    ELSE [exc |-> "none", v |-> Num(Max(minimum, round_step(v.n, step)))]

-----------------------------------------------------------------------------
(* RequestBuilder: the parameters of BasicBot.place_order *)

ValidateAnySide(side, order_type) ==
    IF order_type \notin {"MARKET", "LIMIT", "STOP_LIMIT"}
    THEN "order_type must be MARKET, LIMIT or STOP_LIMIT"
    ELSE "ok"

\* the two checks before the first network call
Validate(side, order_type) ==
    IF side \notin {"BUY", "SELL"} THEN "side must be BUY or SELL"
    ELSE IF order_type \notin {"MARKET", "LIMIT", "STOP_LIMIT"}
    THEN "order_type must be MARKET, LIMIT or STOP_LIMIT"
    ELSE "ok"

TypeParamsStopLimitAsIs(order_type, price, stop_price, time_in_force) ==
    CASE order_type = "MARKET" -> <<Entry("type", Str("MARKET"))>>
      [] order_type = "LIMIT" ->
            <<Entry("type", Str("LIMIT")), Entry("price", price),
              Entry("timeInForce", time_in_force)>>
      [] order_type = "STOP_LIMIT" ->
            <<Entry("type", Str("STOP_LIMIT")), Entry("price", price),
              Entry("stopPrice", stop_price), Entry("timeInForce", time_in_force)>>
      [] OTHER -> <<>>

\* what the order type adds to params
TypeParams(order_type, price, stop_price, time_in_force) ==
    CASE order_type = "MARKET" -> <<Entry("type", Str("MARKET"))>>
      [] order_type = "LIMIT" ->
            <<Entry("type", Str("LIMIT")), Entry("price", price),
              Entry("timeInForce", time_in_force)>>
      [] order_type = "STOP_LIMIT" ->
            <<Entry("type", Str("STOP")), Entry("price", price),
              Entry("stopPrice", stop_price), Entry("timeInForce", time_in_force)>>
      [] OTHER -> <<>>

\* params as handed to _signed_request, o being the call's arguments after
\* upper-casing, quantity and price the adjusted values
BuildParams(o, quantity, price) ==
    LET base == << Entry("symbol", Str(o.symbol)),
                   Entry("side", Str(o.side)),
                   Entry("quantity", quantity),
                   Entry("reduceOnly", Str(BoolStrLower(o.reduce_only))),
                   Entry("closePosition", Str(BoolStrLower(o.close_position))) >>
        withPos == IF Truthy(o.position_side)
                   THEN Put(base, "positionSide", o.position_side) ELSE base
        withType == Update(withPos, TypeParams(o.order_type, price, o.stop_price, o.time_in_force))
    IN DropNone(withType)

\* get_order and cancel_order: the identifier check
HasIdentifier(order_id, orig_client_order_id) ==
    Truthy(order_id) \/ Truthy(orig_client_order_id)

\* get_order and cancel_order: params
LookupParams(symbol, order_id, orig_client_order_id) ==
    LET base == <<Entry("symbol", Str(Upper(symbol)))>>
        withId == IF Truthy(order_id) THEN Put(base, "orderId", order_id) ELSE base
    IN IF Truthy(orig_client_order_id)
       THEN Put(withId, "origClientOrderId", orig_client_order_id) ELSE withId

-----------------------------------------------------------------------------
(* The inputs the callers choose from *)

Symbols == {"btcusdt", "ETHUSDT"}
OrderSymbols == {"btcusdt"}
Sides == {"buy", "SELL", "HOLD"}
OrderTypes == {"MARKET", "limit", "STOP_LIMIT", "ICEBERG"}
Quantities == {None} \cup {Num(n) : n \in (0 - 1)..MaxQty}
Prices == {None} \cup {Num(n) : n \in 0..MaxPrice}

\* time_in_force, stop_price, reduce_only, close_position, position_side
Extras ==
    { [time_in_force |-> Str("GTC"), stop_price |-> None, reduce_only |-> FALSE,
       close_position |-> FALSE, position_side |-> None],
      [time_in_force |-> Str("IOC"), stop_price |-> Num(0), reduce_only |-> TRUE,
       close_position |-> FALSE, position_side |-> Str("LONG")],
      [time_in_force |-> None, stop_price |-> Num(3), reduce_only |-> FALSE,
       close_position |-> TRUE, position_side |-> Str("")] }

OrderIds == {None, Num(0), Num(7)}
ClientOrderIds == {None, Str(""), Str("abc")}

Methods == {"get", "POST", "DELETE", "PATCH"}
Payloads ==
    { NoPayload,
      Payload(<<>>),
      Payload(<<Entry("symbol", Str("BTCUSDT")), Entry("limit", Num(10))>>),
      Payload(<<Entry("recvWindow", Num(1000)), Entry("symbol", Str("BTCUSDT"))>>),
      Payload(<<Entry("timestamp", Num(0)), Entry("symbol", Str("BTCUSDT"))>>),
      Payload(<<Entry("signature", Str("stale")), Entry("symbol", Str("BTCUSDT"))>>) }

NoArgs ==
    [name |-> "none", symbol |-> "", side |-> "", order_type |-> "", quantity |-> None,
     price |-> None, time_in_force |-> None, stop_price |-> None, reduce_only |-> FALSE,
     close_position |-> FALSE, position_side |-> None, order_id |-> None,
     orig_client_order_id |-> None, method |-> "", path |-> "", payload |-> NoPayload]

\* symbol, side and order_type as place_order upper-cases them
Normalized(o) ==
    [o EXCEPT !.symbol = Upper(@), !.side = Upper(@), !.order_type = Upper(@)]

-----------------------------------------------------------------------------
(* The state machine *)

NoFilter == [set |-> FALSE, fallback |-> FALSE, exc |-> "none", f |-> DefaultFilter]
EmptyHeap == [caller |-> <<>>, local |-> <<>>]

Init ==
    /\ pc = "idle"
    /\ op = NoArgs
    /\ heap = EmptyHeap
    /\ callerBefore = <<>>
    /\ calls = <<>>
    /\ resps = <<>>
    /\ filt = NoFilter
    /\ result = NoResult
    /\ now = 1

\* time passes between two operations
Tick ==
    /\ pc = "idle"
    /\ now < MaxTime
    /\ now' = now + 1
    /\ UNCHANGED <<pc, op, heap, callerBefore, calls, resps, filt, result>>

DispatchTwice(log, call) == Append(Append(log, call), call)

\* self.session.get / post / delete: one HTTP call
Dispatch(log, call) == Append(log, call)

\* An operation that fails before any network call
FailEarly(o, msg) ==
    /\ op' = o
    /\ result' = Raise("ValueError", 0, msg)
    /\ pc' = "done"
    /\ heap' = EmptyHeap
    /\ callerBefore' = <<>>
    /\ calls' = <<>>
    /\ resps' = <<>>
    /\ filt' = NoFilter
    /\ UNCHANGED now

\* Entering _signed_request as the first call of operation o
FirstRequest(o, payload, method, path, next) ==
    LET e == SignedRequestEnter(payload, method, path, now)
    IN /\ op' = o
       /\ heap' = e.heap
       /\ callerBefore' = payload.d
       /\ resps' = <<>>
       /\ filt' = NoFilter
       /\ UNCHANGED now
       /\ IF e.exc # "none"
          THEN /\ calls' = <<>>
               /\ result' = Raise(e.exc, 0, "Unsupported HTTP method")
               /\ pc' = "done"
          ELSE /\ calls' = Dispatch(<<>>, e.call)
               /\ result' = NoResult
               /\ pc' = next

\* place_order up to the exchangeInfo GET
PlaceOrder(symbol, side, order_type, quantity, price, x) ==
    /\ pc = "idle"
    /\ LET o == [NoArgs EXCEPT !.name = "place_order", !.symbol = symbol, !.side = side,
                               !.order_type = order_type, !.quantity = quantity,
                               !.price = price, !.time_in_force = x.time_in_force,
                               !.stop_price = x.stop_price, !.reduce_only = x.reduce_only,
                               !.close_position = x.close_position,
                               !.position_side = x.position_side]
           v == Validate(Upper(side), Upper(order_type))
       IN IF v # "ok" THEN FailEarly(o, v)
          ELSE FirstRequest(o, Payload(<<>>), "GET", "/fapi/v1/exchangeInfo", "meta_wait")

\* place_order from the answer to the exchangeInfo GET to the order POST
MetaResponse(r) ==
    /\ pc = "meta_wait"
    /\ resps' = Append(resps, r)
    /\ UNCHANGED <<op, now>>
    /\ LET o == Normalized(op)
           res == ResolveFilter(SignedRequestExit(r), o.symbol)
           f == IF res.exc # "none" THEN DefaultFilter ELSE res.f
           q == Quantize(o.quantity, f.min_qty, f.step_size)
           p == Quantize(o.price, f.min_price, f.tick_size)
           params == BuildParams(o, q.v, p.v)
           e == SignedRequestEnter(Payload(params), "POST", "/fapi/v1/order", now)
       IN IF res.exc # "none" /\ ~Caught(res.exc)
          THEN /\ result' = IF res.exc = "RequestException" THEN SignedRequestExit(r)
                            ELSE Raise(res.exc, 0, "")
               /\ pc' = "done"
               /\ UNCHANGED <<heap, callerBefore, calls, filt>>
          ELSE /\ filt' = [set |-> TRUE, fallback |-> res.exc # "none", exc |-> res.exc, f |-> f]
               /\ IF q.exc # "none" \/ p.exc # "none"
                  THEN /\ result' = Raise("ZeroDivisionError", 0, "float division by zero")
                       /\ pc' = "done"
                       /\ UNCHANGED <<heap, callerBefore, calls>>
                  ELSE /\ heap' = e.heap
                       /\ callerBefore' = params
                       /\ calls' = Dispatch(calls, e.call)
                       /\ result' = NoResult
                       /\ pc' = "request_wait"

\* get_order up to its GET
GetOrder(symbol, order_id, orig_client_order_id) ==
    /\ pc = "idle"
    /\ LET o == [NoArgs EXCEPT !.name = "get_order", !.symbol = symbol, !.order_id = order_id,
                               !.orig_client_order_id = orig_client_order_id]
       IN IF ~HasIdentifier(order_id, orig_client_order_id)
          THEN FailEarly(o, "Either order_id or orig_client_order_id must be provided")
          ELSE FirstRequest(o, Payload(LookupParams(symbol, order_id, orig_client_order_id)),
                            "GET", "/fapi/v1/order", "request_wait")

\* cancel_order up to its DELETE
CancelOrder(symbol, order_id, orig_client_order_id) ==
    /\ pc = "idle"
    /\ LET o == [NoArgs EXCEPT !.name = "cancel_order", !.symbol = symbol,
                               !.order_id = order_id,
                               !.orig_client_order_id = orig_client_order_id]
       IN IF ~HasIdentifier(order_id, orig_client_order_id)
          THEN FailEarly(o, "Either order_id or orig_client_order_id must be provided")
          ELSE FirstRequest(o, Payload(LookupParams(symbol, order_id, orig_client_order_id)),
                            "DELETE", "/fapi/v1/order", "request_wait")

\* _signed_request called by a front-end (balance, positions, order history)
DirectRequest(method, path, payload) ==
    /\ pc = "idle"
    /\ LET o == [NoArgs EXCEPT !.name = "_signed_request", !.method = method, !.path = path,
                               !.payload = payload]
       IN FirstRequest(o, payload, method, path, "request_wait")

\* the last _signed_request of an operation from the HTTP call's outcome on
RequestResponse(r) ==
    /\ pc = "request_wait"
    /\ resps' = Append(resps, r)
    /\ result' = SignedRequestExit(r)
    /\ pc' = "done"
    /\ UNCHANGED <<op, heap, callerBefore, calls, filt, now>>

\* the front-end shows the outcome; the operation's objects are dropped
Finish ==
    /\ pc = "done"
    /\ pc' = "idle"
    /\ op' = NoArgs
    /\ heap' = EmptyHeap
    /\ callerBefore' = <<>>
    /\ calls' = <<>>
    /\ resps' = <<>>
    /\ filt' = NoFilter
    /\ result' = NoResult
    /\ UNCHANGED now

Next ==
    \/ Tick
    \/ \E symbol \in OrderSymbols, side \in Sides, order_type \in OrderTypes,
          quantity \in Quantities, price \in Prices, x \in Extras :
            PlaceOrder(symbol, side, order_type, quantity, price, x)
    \/ \E r \in Responses : MetaResponse(r)
    \/ \E symbol \in Symbols, order_id \in OrderIds, cid \in ClientOrderIds :
            GetOrder(symbol, order_id, cid)
    \/ \E symbol \in Symbols, order_id \in OrderIds, cid \in ClientOrderIds :
            CancelOrder(symbol, order_id, cid)
    \/ \E method \in Methods, payload \in Payloads :
            DirectRequest(method, "/fapi/v2/balance", payload)
    \/ \E r \in OrderResponses : RequestResponse(r)
    \/ Finish

Spec == Init /\ [][Next]_vars

-----------------------------------------------------------------------------
(* The quantizer alone: the adjustment step of place_order, entered with any *)
(* quantity and price and any filter in force                               *)

Minimums == 0..MaxMin
Steps == 0..MaxStep

QuantInit ==
    /\ pc = "adjust"
    /\ \E quantity \in Quantities, price \in Prices :
          op = [NoArgs EXCEPT !.name = "place_order", !.symbol = "btcusdt", !.side = "buy",
                              !.order_type = "limit", !.quantity = quantity, !.price = price]
    /\ \E min_qty \in Minimums, step_size \in Steps, min_price \in Minimums, tick_size \in Steps :
          filt = [set |-> TRUE, fallback |-> FALSE, exc |-> "none",
                  f |-> Filter(min_qty, step_size, min_price, tick_size)]
    /\ heap = EmptyHeap
    /\ callerBefore = <<>>
    /\ calls = <<>>
    /\ resps = <<>>
    /\ result = NoResult
    /\ now = 1

\* if quantity: quantity = max(...); if price: price = max(...): the adjusted
\* values, or the ZeroDivisionError of a zero step (the quantity's first)
Adjust ==
    /\ pc = "adjust"
    /\ pc' = "adjusted"
    /\ LET q == Quantize(op.quantity, filt.f.min_qty, filt.f.step_size)
           p == Quantize(op.price, filt.f.min_price, filt.f.tick_size)
       IN result' = IF q.exc # "none" \/ p.exc # "none"
                    THEN Raise("ZeroDivisionError", 0, "float division by zero")
                    ELSE Return([isdict |-> TRUE,
                                 fields |-> <<Entry("quantity", q.v), Entry("price", p.v)>>,
                                 text |-> ""])
    /\ UNCHANGED <<op, heap, callerBefore, calls, resps, filt, now>>

QuantNext == Adjust

QuantSpec == QuantInit /\ [][QuantNext]_vars

-----------------------------------------------------------------------------
(* Properties *)

IsPlaceOrder == op.name = "place_order"
ValidSide == Upper(op.side) \in {"BUY", "SELL"}
ValidType == Upper(op.order_type) \in {"MARKET", "LIMIT", "STOP_LIMIT"}
IsMetaGet(c) == c.method = "GET" /\ c.path = "/fapi/v1/exchangeInfo"
IsOrderPost(c) == c.method = "POST" /\ c.path = "/fapi/v1/order"

\* C1: a place_order whose side (upper-cased) is not BUY or SELL, or whose order
\* type (upper-cased) is not MARKET, LIMIT or STOP_LIMIT, ends with a ValueError
\* and has issued no HTTP call, neither the exchangeInfo GET nor the order POST.
C1_InvalidOrderFailsBeforeAnyCall ==
    (IsPlaceOrder /\ ~(ValidSide /\ ValidType)) =>
        /\ pc = "done"
        /\ result.kind = "raise"
        /\ result.exc = "ValueError"
        /\ calls = <<>>
        /\ resps = <<>>

C1_Witness ==
    /\ IsPlaceOrder
    /\ pc = "done"
    /\ op.side = "buy"
    /\ op.order_type = "ICEBERG"
    /\ result.exc = "ValueError"

\* The ways the metadata fetch can fail, read off the answer: a transport failure,
\* a non-success status, a body that is no JSON object with a symbols list, no
\* entry for the symbol, or an entry whose filter records cannot be read.
EntryReadable(e) ==
    /\ Has(e.filters, "LOT_SIZE")
    /\ Has(e.filters, "PRICE_FILTER")
    /\ \A k \in {"minQty", "stepSize"} :
          Has(Get(e.filters, "LOT_SIZE"), k) /\ Get(Get(e.filters, "LOT_SIZE"), k).t = "num"
    /\ \A k \in {"minPrice", "tickSize"} :
          Has(Get(e.filters, "PRICE_FILTER"), k) /\ Get(Get(e.filters, "PRICE_FILTER"), k).t = "num"

MetaFetchFails(r, symbol) ==
    \/ r.kind = "transport"
    \/ r.status >= 400
    \/ ~r.body.json
    \/ ~Has(r.body.fields, "symbols")
    \/ LET l == Get(r.body.fields, "symbols").items
       IN \/ \A i \in 1..Len(l) : l[i].symbol # symbol
          \/ \E i \in 1..Len(l) :
                /\ l[i].symbol = symbol
                /\ \A j \in 1..(i - 1) : l[j].symbol # symbol
                /\ ~EntryReadable(l[i])

C3_SignatureOverOtherParameters ==
    \A i \in 1..Len(calls) :
        LET params == calls[i].params
        IN /\ Count(params, "timestamp") = 1
           /\ Count(params, "signature") = 1
           /\ Get(params, "signature") = Sign(Without(params, "signature"))

\* C3 holds of every payload that brings no signature key of its own
C3_HoldsWithoutCallerSignature ==
    (~Has(callerBefore, "signature")) =>
        \A i \in 1..Len(calls) :
            LET params == calls[i].params
            IN /\ Count(params, "timestamp") = 1
               /\ Count(params, "signature") = 1
               /\ Get(params, "signature") = Sign(Without(params, "signature"))


\* the order POSTs among the calls issued
OrderPosts == {i \in 1..Len(calls) : IsPlaceOrder /\ IsOrderPost(calls[i])}
Multiple(n, step) == step # 0 /\ n % step = 0

\* C4: in every order request place_order dispatches, the quantity, when present,
\* is a whole multiple of the quantity step and at least the minimum quantity, and
\* the price, when present, is a whole multiple of the tick and at least the
\* minimum price, under the filter in force.
C4_OnGridAndAboveMinimum ==
    \A i \in OrderPosts :
        LET params == calls[i].params
        IN /\ Has(params, "quantity") =>
                /\ Multiple(Get(params, "quantity").n, filt.f.step_size)
                /\ Get(params, "quantity").n >= filt.f.min_qty
           /\ Has(params, "price") =>
                /\ Multiple(Get(params, "price").n, filt.f.tick_size)
                /\ Get(params, "price").n >= filt.f.min_price

\* what C4 promises of one value: a zero input is sent as it is; any other input
\* is sent at least the minimum, and as a whole multiple of the step unless it is
\* the minimum itself
Adjusted(input, sent, minimum, step) ==
    IF input = Num(0) THEN sent = Num(0)
    ELSE /\ sent.t = "num"
         /\ sent.n >= minimum
         /\ Multiple(sent.n, step) \/ sent.n = minimum
         /\ Multiple(minimum, step) => Multiple(sent.n, step)

\* C4 as amended: a non-zero quantity or price is sent at least the instrument's
\* minimum and either a whole multiple of the step or the minimum itself (so a
\* whole multiple whenever the minimum is one); a zero quantity or price is sent
\* unadjusted.
C4_NonZeroClampedToGridOrMinimum ==
    \A i \in OrderPosts :
        LET params == calls[i].params
        IN /\ Has(params, "quantity") =>
                Adjusted(op.quantity, Get(params, "quantity"), filt.f.min_qty, filt.f.step_size)
           /\ Has(params, "price") =>
                Adjusted(op.price, Get(params, "price"), filt.f.min_price, filt.f.tick_size)

\* a quantity that rounds to zero under a fetched filter whose minimum (3) is no
\* multiple of its step (2), sent as the minimum
C4_Witness ==
    /\ OrderPosts # {}
    /\ ~filt.fallback
    /\ filt.f.min_qty = 3
    /\ filt.f.step_size = 2
    /\ op.quantity = Num(1)
    /\ \A i \in OrderPosts : Get(calls[i].params, "quantity") = Num(3)

\* the answer to the operation's last call, once the operation has ended
Ended == pc = "done" /\ Len(calls) >= 1 /\ Len(resps) = Len(calls)
LastResp == resps[Len(resps)]

\* the message C5 expects: the msg field, or the raw body when there is none
ExpectedMessage(r) ==
    IF r.body.json /\ Has(r.body.fields, "msg")
    THEN Get(r.body.fields, "msg").s ELSE r.body.raw

\* C5: a non-success status makes _signed_request raise an API error carrying the
\* status code and the msg field of the body, or the raw body when the body has
\* no msg field or is no JSON.
C5_ApiErrorCarriesStatusAndMessage ==
    (Ended /\ LastResp.kind = "http" /\ ~Ok(LastResp)) =>
        /\ result.kind = "raise"
        /\ result.exc = "RuntimeError"
        /\ result.status = LastResp.status
        /\ result.msg = ExpectedMessage(LastResp)

\* C5 holds whenever the body is no JSON object or has a msg field
C5_HoldsWithMessageOrText ==
    (Ended /\ LastResp.kind = "http" /\ ~Ok(LastResp)
           /\ (~LastResp.body.json \/ Has(LastResp.body.fields, "msg"))) =>
        /\ result.kind = "raise"
        /\ result.exc = "RuntimeError"
        /\ result.status = LastResp.status
        /\ result.msg = ExpectedMessage(LastResp)

\* C6: every transport failure of an HTTP call reaches the caller of the public
\* operation as an error.
C6_EveryTransportFailurePropagates ==
    (pc = "done" /\ \E i \in 1..Len(resps) : resps[i].kind = "transport") =>
        /\ result.kind = "raise"
        /\ result.exc = "RequestException"

\* C6 as amended: a transport failure of the operation's last call (the order
\* POST, get_order's GET, cancel_order's DELETE, a front-end's request) reaches
\* the caller as the transport's exception; a transport failure of place_order's
\* metadata GET does not: the default filter is taken and the POST is made.
C6_TransportFailurePropagatesButMetadata ==
    /\ (Ended /\ LastResp.kind = "transport") =>
            /\ result.kind = "raise"
            /\ result.exc = "RequestException"
    /\ (IsPlaceOrder /\ Len(resps) >= 1 /\ resps[1].kind = "transport") =>
            /\ filt.fallback
            /\ Len(calls) = 2
            /\ IsOrderPost(calls[2])
            /\ Ended => result = SignedRequestExit(resps[2])

C6_Witness ==
    /\ IsPlaceOrder
    /\ Ended
    /\ Len(resps) = 2
    /\ resps[1].kind = "http"
    /\ resps[2].kind = "transport"
    /\ result.exc = "RequestException"


IsLookup == op.name \in {"get_order", "cancel_order"}
LookupMethod == IF op.name = "get_order" THEN "GET" ELSE "DELETE"
Supplied(v) == v # None

\* C7: get_order and cancel_order fail with a ValueError and no HTTP call when
\* neither identifier is supplied; when at least one is supplied, whatever its
\* value, they pass validation and dispatch exactly one signed request (GET,
\* DELETE) to the order endpoint carrying the supplied identifiers.
C7_IdentifierRequiredAndCarried ==
    IsLookup =>
        IF ~Supplied(op.order_id) /\ ~Supplied(op.orig_client_order_id)
        THEN pc = "done" /\ result.exc = "ValueError" /\ calls = <<>>
        ELSE /\ result.exc # "ValueError"
             /\ Len(calls) = 1
             /\ calls[1].method = LookupMethod
             /\ calls[1].path = "/fapi/v1/order"
             /\ Supplied(op.order_id) =>
                    /\ Has(calls[1].params, "orderId")
                    /\ Get(calls[1].params, "orderId") = op.order_id
             /\ Supplied(op.orig_client_order_id) =>
                    /\ Has(calls[1].params, "origClientOrderId")
                    /\ Get(calls[1].params, "origClientOrderId") = op.orig_client_order_id

\* C7 holds when "supplied" is read as "truthy": neither 0 nor the empty string
C7_HoldsOfTruthyIdentifiers ==
    IsLookup =>
        IF ~Truthy(op.order_id) /\ ~Truthy(op.orig_client_order_id)
        THEN pc = "done" /\ result.exc = "ValueError" /\ calls = <<>>
        ELSE /\ result.exc # "ValueError"
             /\ Len(calls) = 1
             /\ calls[1].method = LookupMethod
             /\ calls[1].path = "/fapi/v1/order"
             /\ Truthy(op.order_id) =>
                    /\ Has(calls[1].params, "orderId")
                    /\ Get(calls[1].params, "orderId") = op.order_id
             /\ Truthy(op.orig_client_order_id) =>
                    /\ Has(calls[1].params, "origClientOrderId")
                    /\ Get(calls[1].params, "origClientOrderId") = op.orig_client_order_id

\* the parameters place_order hands to _signed_request for its POST
Handing == IsPlaceOrder /\ Len(calls) = 2
TypeKeys ==
    CASE Upper(op.order_type) = "MARKET" -> {"type"}
      [] Upper(op.order_type) = "LIMIT" -> {"type", "price", "timeInForce"}
      [] Upper(op.order_type) = "STOP_LIMIT" -> {"type", "price", "stopPrice", "timeInForce"}
      [] OTHER -> {}
ExchangeType == IF Upper(op.order_type) = "STOP_LIMIT" THEN "STOP" ELSE Upper(op.order_type)

\* C8: the parameters handed over are exactly symbol, side, quantity, reduceOnly,
\* closePosition, positionSide only if supplied, and what the order type adds
\* (MARKET: type; LIMIT: type, price, timeInForce; STOP_LIMIT: type=STOP, price,
\* stopPrice, timeInForce); none of them has an absent value, and a zero is kept.
C8_ParametersOfTheContract ==
    Handing =>
        /\ Keys(callerBefore) \ {"positionSide"} =
              {"symbol", "side", "quantity", "reduceOnly", "closePosition"} \cup TypeKeys
        /\ Has(callerBefore, "positionSide") => Supplied(op.position_side)
        /\ Get(callerBefore, "type") = Str(ExchangeType)
        /\ \A i \in 1..Len(callerBefore) : callerBefore[i].v # None

\* the keys whose argument may be absent, with the argument
Optional ==
    {<<"quantity", op.quantity>>}
    \cup (IF "price" \in TypeKeys THEN {<<"price", op.price>>} ELSE {})
    \cup (IF "stopPrice" \in TypeKeys THEN {<<"stopPrice", op.stop_price>>} ELSE {})
    \cup (IF "timeInForce" \in TypeKeys THEN {<<"timeInForce", op.time_in_force>>} ELSE {})

\* C8 as amended: symbol, side, reduceOnly, closePosition and type are always
\* handed over (type=STOP for STOP_LIMIT); quantity, and for their order types
\* price, stopPrice and timeInForce, exactly when the argument is not absent;
\* positionSide exactly when it is supplied and not empty; nothing else; no
\* absent value is handed over, and a zero stopPrice, quantity or price is kept.
C8_ParametersPresentWhenSupplied ==
    Handing =>
        /\ Keys(callerBefore) =
              {"symbol", "side", "reduceOnly", "closePosition", "type"}
              \cup {kv[1] : kv \in {x \in Optional : Supplied(x[2])}}
              \cup (IF Truthy(op.position_side) THEN {"positionSide"} ELSE {})
        /\ \A k \in Keys(callerBefore) : Count(callerBefore, k) = 1
        /\ Get(callerBefore, "symbol") = Str(Upper(op.symbol))
        /\ Get(callerBefore, "side") = Str(Upper(op.side))
        /\ Get(callerBefore, "reduceOnly") = Str(IF op.reduce_only THEN "true" ELSE "false")
        /\ Get(callerBefore, "closePosition") = Str(IF op.close_position THEN "true" ELSE "false")
        /\ Get(callerBefore, "type") = Str(ExchangeType)
        /\ Has(callerBefore, "positionSide") => Get(callerBefore, "positionSide") = op.position_side
        /\ Has(callerBefore, "stopPrice") => Get(callerBefore, "stopPrice") = op.stop_price
        /\ Has(callerBefore, "timeInForce") => Get(callerBefore, "timeInForce") = op.time_in_force
        /\ \A i \in 1..Len(callerBefore) : callerBefore[i].v # None
        /\ \A kv \in Optional : kv[2] = Num(0) => Get(callerBefore, kv[1]) = Num(0)

\* a STOP_LIMIT order without a quantity and with a zero stop price
C8_Witness ==
    /\ Handing
    /\ op.order_type = "STOP_LIMIT"
    /\ op.quantity = None
    /\ op.price = Num(3)
    /\ op.stop_price = Num(0)
    /\ Keys(callerBefore) = {"symbol", "side", "reduceOnly", "closePosition", "positionSide",
                             "type", "price", "stopPrice", "timeInForce"}

Request(c) == <<c.method, c.path>>

\* C9: no call is retried or repeated. place_order issues at most two HTTP
\* calls, the metadata GET first and the order POST only once that GET has been
\* answered or has failed; the other operations issue at most one; calls are made
\* one at a time, and no request is issued twice within an operation.
C9_NoRetryAndCallOrder ==
    /\ Len(resps) <= Len(calls)
    /\ Len(calls) <= Len(resps) + 1
    /\ \A i, j \in 1..Len(calls) : i # j => Request(calls[i]) # Request(calls[j])
    /\ IF IsPlaceOrder
       THEN /\ Len(calls) <= 2
            /\ Len(calls) >= 1 => IsMetaGet(calls[1])
            /\ Len(calls) = 2 => (IsOrderPost(calls[2]) /\ Len(resps) >= 1)
       ELSE Len(calls) <= 1

\* a place_order both of whose calls failed in the transport
C9_Witness ==
    /\ IsPlaceOrder
    /\ pc = "done"
    /\ Len(calls) = 2
    /\ resps[1].kind = "transport"
    /\ resps[2].kind = "transport"

\* C10: _signed_request leaves its caller's payload as it found it on every path;
\* recvWindow, timestamp and signature go into a copy, which is what is sent, and
\* recvWindow is the client's default only when the caller's payload has none.
C10_CallerPayloadUntouched ==
    /\ heap.caller = callerBefore
    /\ (pc \in {"meta_wait", "request_wait"} \/ Ended \/ op.name = "_signed_request") =>
          /\ Keys(heap.local) = Keys(callerBefore) \cup {"recvWindow", "timestamp", "signature"}
          /\ \A k \in Keys(callerBefore) \ {"timestamp", "signature"} :
                Get(heap.local, k) = Get(callerBefore, k)
          /\ ~Has(callerBefore, "recvWindow") => Get(heap.local, "recvWindow") = Num(5000)
    /\ Len(calls) > Len(resps) => calls[Len(calls)].params = heap.local

\* a caller's payload with a recvWindow of its own, after the call has raised
C10_Witness ==
    /\ op.name = "_signed_request"
    /\ Ended
    /\ result.kind = "raise"
    /\ Has(callerBefore, "recvWindow")
    /\ heap.caller = callerBefore
    /\ Get(heap.local, "recvWindow") = Num(1000)


\* the adjusted quantity and price, once the adjustment has returned
HasAdjusted == pc = "adjusted" /\ result.kind = "return"
AdjustedQuantity == Get(result.content.fields, "quantity")
AdjustedPrice == Get(result.content.fields, "price")

\* what C11 says of one provided value v at or below the minimum
ClampsToMinimum(v, out, minimum) ==
    (v # None /\ v.n <= minimum) => out = Num(minimum)

\* C11: for every filter (minimum, step) and every provided value v <= minimum,
\* the quantizer max(minimum, round(v / step) * step) yields the minimum.
C11_ClampToMinimum ==
    HasAdjusted =>
        /\ ClampsToMinimum(op.quantity, AdjustedQuantity, filt.f.min_qty)
        /\ ClampsToMinimum(op.price, AdjustedPrice, filt.f.min_price)

\* what the amended C11 says of one provided value v at or below the minimum
ClampsOnGrid(v, out, minimum, step) ==
    (v # None /\ v.n <= minimum) =>
        IF v = Num(0) THEN out = Num(0)
        ELSE /\ out.t = "num"
             /\ out.n >= minimum
             /\ 2 * (out.n - minimum) <= step
             /\ Multiple(minimum, step) => out = Num(minimum)

\* C11 as amended: a provided non-zero value v <= minimum is adjusted to the
\* minimum whenever the minimum is a whole multiple of the step; when it is not,
\* the result is the next step above the minimum or the minimum, never more than
\* half a step above it; a zero value is not adjusted and stays zero.
C11_ClampToMinimumOnGrid ==
    HasAdjusted =>
        /\ ClampsOnGrid(op.quantity, AdjustedQuantity, filt.f.min_qty, filt.f.step_size)
        /\ ClampsOnGrid(op.price, AdjustedPrice, filt.f.min_price, filt.f.tick_size)

\* minimum and step equal (3), a quantity of a third of a step: rounded to zero,
\* clamped to the minimum
C11_Witness ==
    /\ HasAdjusted
    /\ filt.f.min_qty = 3
    /\ filt.f.step_size = 3
    /\ op.quantity = Num(1)
    /\ AdjustedQuantity = Num(3)

====
